---------------------------- MODULE Spec2Model ----------------------------
(***************************************************************************)
(* Model of train.py: the k-fold orchestration loop (train), one fold's    *)
(* training call (train_model) and the majority-vote aggregation           *)
(* (most_frequent_prediction).                                             *)
(*                                                                         *)
(* Tables are sequences.  The training table is the sequence of its row    *)
(* labels 0..N-1; a submission is a sequence of records [id, prediction].  *)
(* A CSV file is a sequence of lines, a line a sequence of fields, a field *)
(* a sequence of characters.  An empty sequence stands for None / no file. *)
(***************************************************************************)
EXTENDS Integers, Sequences, FiniteSets, TLC

\* ------------------------------------------------------------------ sizes
\* n_splits of KFold
K == 5
\* largest training table of SpecSplit
MaxN == 11
\* largest test table of a whole run
MaxTest == 1
\* largest inputs of the aggregator taken alone
MaxAggFolds == 5
MaxAggRows == 2
MaxCells == 6
\* one fold's fit loop taken alone
MaxEpochs == 3
MaxAcc == 3

\* class labels of the task
Classes == {0, 1, 2}

VARIABLES
    pc,                 \* position of the control flow
    train_csv,          \* number of rows of train.csv on disk
    test_csv,           \* ids of test.csv on disk
    train_df,           \* train(): the training table, <<>> before it is read
    test_df,            \* train(): the ids of the test table
    gen,                \* folds.split(): number of folds the generator has yielded
    ii,                 \* train(): loop index / fold_index
    train_indices,      \* train(): the fold's training indices
    val_indices,        \* train(): the fold's validation indices
    train_data,         \* train(): rows passed to train_model as train_data
    val_data,           \* train(): rows passed to train_model as val_data
    test_predictions,   \* train(): value returned by train_model
    predictions,        \* train(): list of fold submissions
    final_submission,   \* train(): aggregated table
    file,               \* content of current_dir/submission.csv
    uploaded,           \* content handed to wandb.save in train()
    printed,            \* "training is finished!" was printed
    log,                \* history: the calls made so far, in order
    written,            \* history: the table each fold's test step wrote
    passed,             \* history: the arguments of each train_model call
    failure,            \* history: <<>> or <<step, fold>> of the raised error
    num_epochs,         \* cfg.num_epochs
    epoch,              \* fit loop: epochs completed
    val_accs,           \* fit loop: val/acc_epoch of each completed epoch
    best_k_models       \* ModelCheckpoint: retained checkpoints [epoch, score]

vars == <<pc, train_csv, test_csv, train_df, test_df, gen, ii, train_indices,
          val_indices, train_data, val_data, test_predictions, predictions,
          final_submission, file, uploaded, printed, log, written, passed,
          failure, num_epochs, epoch, val_accs, best_k_models>>

fitVars == <<num_epochs, epoch, val_accs, best_k_models>>
dataVars == <<train_csv, test_csv>>

\* ------------------------------------------------------- sequence helpers
Range(s) == {s[i] : i \in DOMAIN s}

IsPrefix(s, t) == Len(s) <= Len(t) /\ \A i \in 1..Len(s) : s[i] = t[i]

\* the integers lo, lo+1, ..., hi-1 in order (numpy arange)
Arange(lo, hi) == [i \in 1..(IF hi > lo THEN hi - lo ELSE 0) |-> lo + i - 1]

SetMin(S) == CHOOSE x \in S : \A y \in S : x <= y

RECURSIVE SortedSeq(_)
SortedSeq(S) == IF S = {} THEN <<>>
                ELSE <<SetMin(S)>> \o SortedSeq(S \ {SetMin(S)})

\* ------------------------------------------------------------------- CSV
Digits == <<"0", "1", "2", "3", "4", "5", "6", "7", "8", "9">>

RECURSIVE FormatInt(_)
FormatInt(n) == IF n < 10 THEN <<Digits[n + 1]>>
                ELSE FormatInt(n \div 10) \o <<Digits[(n % 10) + 1]>>

DigitVal(c) == CHOOSE d \in 0..9 : Digits[d + 1] = c

RECURSIVE ParseInt(_)
ParseInt(s) == IF Len(s) = 1 THEN DigitVal(s[1])
               ELSE 10 * ParseInt(SubSeq(s, 1, Len(s) - 1)) + DigitVal(s[Len(s)])

Header == <<"id", "prediction">>

\* DataFrame.to_csv(path, index=False) of a table with columns id, prediction
to_csv(df) == <<Header>> \o [r \in 1..Len(df) |->
                               <<FormatInt(df[r].id), FormatInt(df[r].prediction)>>]

\* variant of read_csv: the first data line is taken for a second header
read_csv_skip(f) == [r \in 1..(Len(f) - 2) |->
                       [id |-> ParseInt(f[r + 2][1]), prediction |-> ParseInt(f[r + 2][2])]]

\* pd.read_csv(path) of such a file
read_csv(f) == [r \in 1..(Len(f) - 1) |->
                  [id |-> ParseInt(f[r + 1][1]), prediction |-> ParseInt(f[r + 1][2])]]

\* ----------------------------------------------------------------- KFold
\* variant of fold_sizes: the remainder n % K is not distributed
fold_sizes_even(n, j) == n \div K

\* KFold._iter_test_indices: the first n % K folds have one row more
fold_sizes(n, j) == (n \div K) + (IF j < n % K THEN 1 ELSE 0)

RECURSIVE fold_start(_, _)
fold_start(n, j) == IF j = 0 THEN 0 ELSE fold_start(n, j - 1) + fold_sizes(n, j - 1)

\* test (validation) indices of fold j, without shuffling
test_index(n, j) == Arange(fold_start(n, j), fold_start(n, j) + fold_sizes(n, j))

\* variant of train_index: the test mask is not excluded
train_index_all(n, j) == Arange(0, n)

\* training indices of fold j: the indices outside the test mask, ascending
train_index(n, j) == SelectSeq(Arange(0, n), LAMBDA x : x \notin Range(test_index(n, j)))

\* DataFrame.iloc[indices] on the training table
iloc(df, indices) == [i \in 1..Len(indices) |-> df[indices[i] + 1]]

\* --------------------------------------------------------- aggregation
\* number of occurrences of v in a row of fold predictions
Count(row, v) == Cardinality({i \in DOMAIN row : row[i] = v})

\* variant of mode: every value of the row, whatever its count
mode_any(row) == SortedSeq({v \in Classes : \E i \in DOMAIN row : row[i] = v})

\* variant of mode: the most frequent values, sorted descending
mode_desc(row) ==
    LET m == SortedSeq({v \in Classes :
                          /\ \E i \in DOMAIN row : row[i] = v
                          /\ \A w \in Classes :
                                Cardinality({i \in DOMAIN row : row[i] = w})
                                  <= Cardinality({i \in DOMAIN row : row[i] = v})})
    IN  [i \in 1..Len(m) |-> m[Len(m) + 1 - i]]

\* Series.mode of one row: the most frequent values, sorted ascending
mode(row) == SortedSeq({v \in Range(row) :
                          \A w \in Range(row) : Count(row, w) <= Count(row, v)})

\* pd.DataFrame(results): row r holds fold 0..k-1's prediction at position r
ResultsRow(fold_submissions, r) ==
    [f \in 1..Len(fold_submissions) |-> fold_submissions[f][r].prediction]

\* variant of most_frequent_prediction: the ids are replaced by a fresh index
most_frequent_prediction_reindexed(fold_submissions) ==
    [r \in 1..Len(fold_submissions[1]) |->
        [id |-> r,
         prediction |-> mode(ResultsRow(fold_submissions, r))[1]]]

most_frequent_prediction(fold_submissions) ==
    [r \in 1..Len(fold_submissions[1]) |->
        [id |-> fold_submissions[1][r].id,
         prediction |-> mode(ResultsRow(fold_submissions, r))[1]]]

\* ------------------------------------------------- test step of the model
\* the table the model's test step saves: one prediction per test row
FoldTable(ids, preds) == [r \in 1..Len(ids) |-> [id |-> ids[r], prediction |-> preds[r]]]

\* ids of a test table of t rows (not in ascending order)
TestIds(t) == [r \in 1..t |-> t + 1 - r]

\* ---------------------------------------------------------------- Init
\* the locals of train() before its first statement, nothing written yet
InitLocals ==
    /\ train_df = <<>> /\ test_df = <<>>
    /\ gen = 0 /\ ii = 0
    /\ train_indices = <<>> /\ val_indices = <<>>
    /\ train_data = <<>> /\ val_data = <<>>
    /\ test_predictions = <<>>
    /\ final_submission = <<>> /\ file = <<>> /\ uploaded = <<>>
    /\ printed = FALSE
    /\ log = <<>> /\ written = <<>> /\ passed = <<>> /\ failure = <<>>

InitCheckpoint ==
    /\ epoch = 0 /\ val_accs = <<>> /\ best_k_models = {}

InitRun ==
    /\ pc = "read_train"
    /\ InitLocals
    /\ predictions = <<>>
    /\ num_epochs = 1
    /\ InitCheckpoint

\* a whole run on the smallest training tables
Init ==
    /\ InitRun
    /\ train_csv \in (K - 1)..K
    /\ \E t \in 1..MaxTest : test_csv = TestIds(t)

\* a whole run on training tables of every size up to MaxN
InitSplit ==
    /\ InitRun
    /\ train_csv \in (K - 1)..MaxN
    /\ test_csv = TestIds(1)

\* ------------------------------------------------------------- train()
Raise(step, fold) ==
    /\ pc' = "aborted"
    /\ failure' = <<step, fold>>

ReadTrain ==
    /\ pc = "read_train"
    /\ train_df' = Arange(0, train_csv)
    /\ pc' = "read_test"
    /\ UNCHANGED <<test_df, gen, ii, train_indices, val_indices, train_data,
                   val_data, test_predictions, predictions, final_submission,
                   file, uploaded, printed, log, written, failure>>
    /\ UNCHANGED fitVars /\ UNCHANGED dataVars /\ UNCHANGED passed

ReadTrainFail ==
    /\ pc = "read_train"
    /\ Raise("read_csv train", -1)
    /\ UNCHANGED <<train_df, test_df, gen, ii, train_indices, val_indices,
                   train_data, val_data, test_predictions, predictions,
                   final_submission, file, uploaded, printed, log, written>>
    /\ UNCHANGED fitVars /\ UNCHANGED dataVars /\ UNCHANGED passed

ReadTest ==
    /\ pc = "read_test"
    /\ test_df' = test_csv
    /\ pc' = "loop"
    /\ UNCHANGED <<train_df, gen, ii, train_indices, val_indices, train_data,
                   val_data, test_predictions, predictions, final_submission,
                   file, uploaded, printed, log, written, failure>>
    /\ UNCHANGED fitVars /\ UNCHANGED dataVars /\ UNCHANGED passed

ReadTestFail ==
    /\ pc = "read_test"
    /\ Raise("read_csv test", -1)
    /\ UNCHANGED <<train_df, test_df, gen, ii, train_indices, val_indices,
                   train_data, val_data, test_predictions, predictions,
                   final_submission, file, uploaded, printed, log, written>>
    /\ UNCHANGED fitVars /\ UNCHANGED dataVars /\ UNCHANGED passed

\* folds.split(train_df) refuses a table with fewer rows than splits
SplitError ==
    /\ pc = "loop"
    /\ Len(train_df) < K
    /\ Raise("split", -1)
    /\ UNCHANGED <<train_df, test_df, gen, ii, train_indices, val_indices,
                   train_data, val_data, test_predictions, predictions,
                   final_submission, file, uploaded, printed, log, written>>
    /\ UNCHANGED fitVars /\ UNCHANGED dataVars /\ UNCHANGED passed

\* the loop header takes the next (train_indices, val_indices) pair
SplitNext ==
    /\ pc = "loop"
    /\ Len(train_df) >= K
    /\ gen < K
    /\ ii' = gen
    /\ gen' = gen + 1
    /\ train_indices' = train_index(Len(train_df), gen)
    /\ val_indices' = test_index(Len(train_df), gen)
    /\ pc' = "iloc"
    /\ UNCHANGED <<train_df, test_df, train_data, val_data, test_predictions,
                   predictions, final_submission, file, uploaded, printed,
                   log, written, failure>>
    /\ UNCHANGED fitVars /\ UNCHANGED dataVars /\ UNCHANGED passed

Iloc ==
    /\ pc = "iloc"
    /\ train_data' = iloc(train_df, train_indices)
    /\ val_data' = iloc(train_df, val_indices)
    /\ pc' = "call"
    /\ UNCHANGED <<train_df, test_df, gen, ii, train_indices, val_indices,
                   test_predictions, predictions, final_submission, file,
                   uploaded, printed, log, written, failure>>
    /\ UNCHANGED fitVars /\ UNCHANGED dataVars /\ UNCHANGED passed

\* train_model is entered: model, dataloader, logger, checkpointer, trainer
CallTrainModel ==
    /\ pc = "call"
    /\ log' = Append(log, <<"train_model", ii>>)
    /\ passed' = Append(passed, [fold_index |-> ii,
                                 train_indices |-> train_indices,
                                 val_indices |-> val_indices,
                                 train_data |-> train_data,
                                 val_data |-> val_data])
    /\ pc' = "fit"
    /\ UNCHANGED <<train_df, test_df, gen, ii, train_indices, val_indices,
                   train_data, val_data, test_predictions, predictions,
                   final_submission, file, uploaded, printed, written, failure>>
    /\ UNCHANGED fitVars /\ UNCHANGED dataVars

Fit ==
    /\ pc = "fit"
    /\ log' = Append(log, <<"fit", ii>>)
    /\ pc' = "test"
    /\ UNCHANGED <<train_df, test_df, gen, ii, train_indices, val_indices,
                   train_data, val_data, test_predictions, predictions,
                   final_submission, file, uploaded, printed, written, failure>>
    /\ UNCHANGED fitVars /\ UNCHANGED dataVars /\ UNCHANGED passed

\* variant of FitFail: the error is caught and the loop goes on
FitFail_swallowed ==
    /\ pc = "fit"
    /\ failure' = <<"fit", ii>>
    /\ pc' = "loop"
    /\ UNCHANGED <<train_df, test_df, gen, ii, train_indices, val_indices,
                   train_data, val_data, test_predictions, predictions,
                   final_submission, file, uploaded, printed, log, written>>
    /\ UNCHANGED fitVars /\ UNCHANGED dataVars /\ UNCHANGED passed

FitFail ==
    /\ pc = "fit"
    /\ Raise("fit", ii)
    /\ UNCHANGED <<train_df, test_df, gen, ii, train_indices, val_indices,
                   train_data, val_data, test_predictions, predictions,
                   final_submission, file, uploaded, printed, log, written>>
    /\ UNCHANGED fitVars /\ UNCHANGED dataVars /\ UNCHANGED passed

\* trainer.test: the model predicts a class per test row and saves the table
Test ==
    /\ pc = "test"
    /\ \E preds \in [1..Len(test_df) -> Classes] :
          /\ file' = to_csv(FoldTable(test_df, preds))
          /\ written' = Append(written, FoldTable(test_df, preds))
    /\ log' = Append(log, <<"test_write", ii>>)
    /\ pc' = "finish"
    /\ UNCHANGED <<train_df, test_df, gen, ii, train_indices, val_indices,
                   train_data, val_data, test_predictions, predictions,
                   final_submission, uploaded, printed, failure>>
    /\ UNCHANGED fitVars /\ UNCHANGED dataVars /\ UNCHANGED passed

TestFail ==
    /\ pc = "test"
    /\ Raise("test", ii)
    /\ UNCHANGED <<train_df, test_df, gen, ii, train_indices, val_indices,
                   train_data, val_data, test_predictions, predictions,
                   final_submission, file, uploaded, printed, log, written>>
    /\ UNCHANGED fitVars /\ UNCHANGED dataVars /\ UNCHANGED passed

WandbFinishFold ==
    /\ pc = "finish"
    /\ log' = Append(log, <<"wandb.finish", ii>>)
    /\ pc' = "readback"
    /\ UNCHANGED <<train_df, test_df, gen, ii, train_indices, val_indices,
                   train_data, val_data, test_predictions, predictions,
                   final_submission, file, uploaded, printed, written, failure>>
    /\ UNCHANGED fitVars /\ UNCHANGED dataVars /\ UNCHANGED passed

\* fold_submission = pd.read_csv(...); return fold_submission
ReadBack ==
    /\ pc = "readback"
    /\ test_predictions' = read_csv(file)
    /\ log' = Append(log, <<"read_csv", ii>>)
    /\ pc' = "append"
    /\ UNCHANGED <<train_df, test_df, gen, ii, train_indices, val_indices,
                   train_data, val_data, predictions, final_submission, file,
                   uploaded, printed, written, failure>>
    /\ UNCHANGED fitVars /\ UNCHANGED dataVars /\ UNCHANGED passed

ReadBackFail ==
    /\ pc = "readback"
    /\ Raise("read_csv submission", ii)
    /\ UNCHANGED <<train_df, test_df, gen, ii, train_indices, val_indices,
                   train_data, val_data, test_predictions, predictions,
                   final_submission, file, uploaded, printed, log, written>>
    /\ UNCHANGED fitVars /\ UNCHANGED dataVars /\ UNCHANGED passed

AppendPrediction ==
    /\ pc = "append"
    /\ predictions' = Append(predictions, test_predictions)
    /\ log' = Append(log, <<"append", ii>>)
    /\ pc' = "loop"
    /\ UNCHANGED <<train_df, test_df, gen, ii, train_indices, val_indices,
                   train_data, val_data, test_predictions, final_submission,
                   file, uploaded, printed, written, failure>>
    /\ UNCHANGED fitVars /\ UNCHANGED dataVars /\ UNCHANGED passed

\* variant of LoopExit: the loop may end one fold early
LoopExit_early ==
    /\ pc = "loop"
    /\ Len(train_df) >= K
    /\ gen >= K - 1
    /\ pc' = "aggregate"
    /\ UNCHANGED <<train_df, test_df, gen, ii, train_indices, val_indices,
                   train_data, val_data, test_predictions, predictions,
                   final_submission, file, uploaded, printed, log, written,
                   failure>>
    /\ UNCHANGED fitVars /\ UNCHANGED dataVars /\ UNCHANGED passed

\* the generator is exhausted: the loop ends
LoopExit ==
    /\ pc = "loop"
    /\ Len(train_df) >= K
    /\ gen = K
    /\ pc' = "aggregate"
    /\ UNCHANGED <<train_df, test_df, gen, ii, train_indices, val_indices,
                   train_data, val_data, test_predictions, predictions,
                   final_submission, file, uploaded, printed, log, written,
                   failure>>
    /\ UNCHANGED fitVars /\ UNCHANGED dataVars /\ UNCHANGED passed

Aggregate ==
    /\ pc = "aggregate"
    /\ final_submission' = most_frequent_prediction(predictions)
    /\ log' = Append(log, <<"most_frequent_prediction", -1>>)
    /\ pc' = "write_final"
    /\ UNCHANGED <<train_df, test_df, gen, ii, train_indices, val_indices,
                   train_data, val_data, test_predictions, predictions, file,
                   uploaded, printed, written, failure>>
    /\ UNCHANGED fitVars /\ UNCHANGED dataVars /\ UNCHANGED passed

\* variant of WriteFinal: the last fold's table is written instead
WriteFinal_stale ==
    /\ pc = "write_final"
    /\ file' = to_csv(test_predictions)
    /\ log' = Append(log, <<"final_write", -1>>)
    /\ pc' = "wandb_init"
    /\ UNCHANGED <<train_df, test_df, gen, ii, train_indices, val_indices,
                   train_data, val_data, test_predictions, predictions,
                   final_submission, uploaded, printed, written, failure>>
    /\ UNCHANGED fitVars /\ UNCHANGED dataVars /\ UNCHANGED passed

WriteFinal ==
    /\ pc = "write_final"
    /\ file' = to_csv(final_submission)
    /\ log' = Append(log, <<"final_write", -1>>)
    /\ pc' = "wandb_init"
    /\ UNCHANGED <<train_df, test_df, gen, ii, train_indices, val_indices,
                   train_data, val_data, test_predictions, predictions,
                   final_submission, uploaded, printed, written, failure>>
    /\ UNCHANGED fitVars /\ UNCHANGED dataVars /\ UNCHANGED passed

WandbInit ==
    /\ pc = "wandb_init"
    /\ log' = Append(log, <<"wandb.init", -1>>)
    /\ pc' = "wandb_save"
    /\ UNCHANGED <<train_df, test_df, gen, ii, train_indices, val_indices,
                   train_data, val_data, test_predictions, predictions,
                   final_submission, file, uploaded, printed, written, failure>>
    /\ UNCHANGED fitVars /\ UNCHANGED dataVars /\ UNCHANGED passed

WandbSave ==
    /\ pc = "wandb_save"
    /\ uploaded' = file
    /\ log' = Append(log, <<"wandb.save", -1>>)
    /\ pc' = "wandb_finish"
    /\ UNCHANGED <<train_df, test_df, gen, ii, train_indices, val_indices,
                   train_data, val_data, test_predictions, predictions,
                   final_submission, file, printed, written, failure>>
    /\ UNCHANGED fitVars /\ UNCHANGED dataVars /\ UNCHANGED passed

WandbFinish ==
    /\ pc = "wandb_finish"
    /\ log' = Append(log, <<"wandb.finish", -1>>)
    /\ pc' = "print"
    /\ UNCHANGED <<train_df, test_df, gen, ii, train_indices, val_indices,
                   train_data, val_data, test_predictions, predictions,
                   final_submission, file, uploaded, printed, written, failure>>
    /\ UNCHANGED fitVars /\ UNCHANGED dataVars /\ UNCHANGED passed

PrintFinished ==
    /\ pc = "print"
    /\ printed' = TRUE
    /\ log' = Append(log, <<"print", -1>>)
    /\ pc' = "done"
    /\ UNCHANGED <<train_df, test_df, gen, ii, train_indices, val_indices,
                   train_data, val_data, test_predictions, predictions,
                   final_submission, file, uploaded, written, failure>>
    /\ UNCHANGED fitVars /\ UNCHANGED dataVars /\ UNCHANGED passed

Next ==
    \/ ReadTrain \/ ReadTrainFail \/ ReadTest \/ ReadTestFail
    \/ SplitError \/ SplitNext \/ Iloc \/ CallTrainModel
    \/ Fit \/ FitFail \/ Test \/ TestFail \/ WandbFinishFold
    \/ ReadBack \/ ReadBackFail \/ AppendPrediction \/ LoopExit
    \/ Aggregate \/ WriteFinal \/ WandbInit \/ WandbSave \/ WandbFinish
    \/ PrintFinished

Spec == Init /\ [][Next]_vars

SpecSplit == InitSplit /\ [][Next]_vars



\* ------------------------------------------- most_frequent_prediction alone
\* the fold submissions of k folds over one test table of t rows
FoldSubmissions(k, t) ==
    [1..k -> {FoldTable(TestIds(t), preds) : preds \in [1..t -> Classes]}]

InitAgg ==
    /\ pc = "aggregate"
    /\ InitLocals
    /\ train_csv = K /\ test_csv = <<>>
    /\ num_epochs = 1
    /\ InitCheckpoint
    /\ \E k \in 1..MaxAggFolds, t \in 1..MaxAggRows :
          /\ k * t <= MaxCells
          /\ predictions \in FoldSubmissions(k, t)

NextAgg == Aggregate

SpecAgg == InitAgg /\ [][NextAgg]_vars

\* ------------------------------------------------- the fit loop of one fold
\* ModelCheckpoint(monitor="val/acc_epoch", mode="min", save_top_k=1)
save_top_k == 1
checkpoint_mode == "min"

\* whether score a is better than score b under the configured mode
monitor_op(a, b) == IF checkpoint_mode = "min" THEN a < b ELSE a > b

\* the worst of the retained checkpoints
kth_best_model(best) ==
    CHOOSE c \in best : \A d \in best : ~monitor_op(c.score, d.score)

check_monitor_top_k(best, current) ==
    IF Cardinality(best) < save_top_k THEN TRUE
    ELSE monitor_op(current, kth_best_model(best).score)

\* the new checkpoint is saved and, when k are already kept, the worst is deleted
update_best_and_save(best, ep, current) ==
    (IF Cardinality(best) = save_top_k THEN best \ {kth_best_model(best)} ELSE best)
        \cup {[epoch |-> ep, score |-> current]}

on_validation_end(best, ep, current) ==
    IF check_monitor_top_k(best, current)
    THEN update_best_and_save(best, ep, current)
    ELSE best

InitFit ==
    /\ pc = "fit_epoch"
    /\ InitLocals
    /\ train_csv = K /\ test_csv = <<>>
    /\ predictions = <<>>
    /\ num_epochs \in 1..MaxEpochs
    /\ InitCheckpoint

\* one epoch: training, validation (accuracy acc / MaxAcc), checkpoint callback
EpochEnd ==
    /\ pc = "fit_epoch"
    /\ epoch < num_epochs
    /\ \E acc \in 0..MaxAcc :
          /\ val_accs' = Append(val_accs, acc)
          /\ best_k_models' = on_validation_end(best_k_models, epoch, acc)
    /\ epoch' = epoch + 1
    /\ UNCHANGED <<pc, num_epochs, train_df, test_df, gen, ii, train_indices,
                   val_indices, train_data, val_data, test_predictions,
                   predictions, final_submission, file, uploaded, printed,
                   log, written, passed, failure>>
    /\ UNCHANGED dataVars

\* max_epochs is reached: trainer.fit returns
FitReturn ==
    /\ pc = "fit_epoch"
    /\ epoch = num_epochs
    /\ pc' = "fit_done"
    /\ UNCHANGED <<train_df, test_df, gen, ii, train_indices, val_indices,
                   train_data, val_data, test_predictions, predictions,
                   final_submission, file, uploaded, printed, log, written,
                   passed, failure>>
    /\ UNCHANGED fitVars /\ UNCHANGED dataVars

NextFit == EpochEnd \/ FitReturn

SpecFit == InitFit /\ [][NextFit]_vars

\* ======================================================== the properties
\* the predictions of the folds at row position r, in fold order
VotesAt(r) == [f \in 1..Len(predictions) |-> predictions[f][r].prediction]

\* how many folds predicted class v at row position r
Votes(r, v) == Cardinality({f \in 1..Len(predictions) : predictions[f][r].prediction = v})

\* the calls of fold i, and of a complete run, in program order
FoldLog(i) == << <<"train_model", i>>, <<"fit", i>>, <<"test_write", i>>,
                 <<"wandb.finish", i>>, <<"read_csv", i>>, <<"append", i>> >>

RECURSIVE FoldsLog(_)
FoldsLog(k) == IF k = 0 THEN <<>> ELSE FoldsLog(k - 1) \o FoldLog(k - 1)

FullLog == FoldsLog(K) \o << <<"most_frequent_prediction", -1>>, <<"final_write", -1>>,
                             <<"wandb.init", -1>>, <<"wandb.save", -1>>,
                             <<"wandb.finish", -1>>, <<"print", -1>> >>

IsWrite(e) == e[1] \in {"test_write", "final_write"}

\* C1: for a training table of N >= K rows the validation-index sets of the
\* folds are pairwise disjoint, and once all K folds were produced their
\* union is the full row-index set 0..N-1: every row is a validation row of
\* exactly one fold.
C1_ValidationPartition ==
    LET Val(i) == Range(passed[i].val_indices) IN
    /\ \A i \in 1..Len(passed) :
          Cardinality(Val(i)) = Len(passed[i].val_indices)
    /\ \A i, j \in 1..Len(passed) : i # j => Val(i) \cap Val(j) = {}
    /\ Len(passed) = K =>
          UNION {Val(i) : i \in 1..K} = 0..(Len(train_df) - 1)

\* all five folds were produced from a table whose size is no multiple of K
C1_Witness == Len(passed) = K /\ Len(train_df) = K + 2

\* C2: at every row position the aggregator outputs a class whose number of
\* occurrences among the fold predictions at that position is maximal.
C2_MajorityIsMode ==
    pc = "write_final" =>
        /\ Len(final_submission) = Len(predictions[1])
        /\ \A r \in 1..Len(final_submission) : \A v \in Classes :
              Votes(r, v) <= Votes(r, final_submission[r].prediction)

\* three folds predicted 1, 0, 0 for a row and the aggregate is 0
C2_Witness ==
    /\ pc = "write_final"
    /\ Len(predictions) = 3
    /\ VotesAt(1) = <<1, 0, 0>>
    /\ final_submission[1].prediction = 0

\* C3: when several classes are tied for the highest count at a row position
\* the aggregator outputs the numerically smallest of them; the output is
\* thereby determined by the input.
C3_TieBreakSmallest ==
    pc = "write_final" =>
        \A r \in 1..Len(predictions[1]) :
            LET top == {v \in Classes : \A w \in Classes : Votes(r, w) <= Votes(r, v)}
            IN  /\ final_submission[r].prediction \in top
                /\ \A v \in top : final_submission[r].prediction <= v

\* five folds predicted 1, 1, 0, 0, 2 for a row (0 and 1 tied) and the
\* aggregate is 0
C3_Witness ==
    /\ pc = "write_final"
    /\ Len(predictions) = K
    /\ VotesAt(1) = <<1, 1, 0, 0, 2>>
    /\ final_submission[1].prediction = 0

\* C4: for fold submissions sharing ids and order the aggregator's output has
\* as many rows as each input, the ids of the first fold submission in the
\* same order, and one prediction per unique id.
C4_OneRowPerId ==
    pc = "write_final" =>
        /\ \A f \in 1..Len(predictions) :
              Len(final_submission) = Len(predictions[f])
        /\ \A r \in 1..Len(final_submission) :
              final_submission[r].id = predictions[1][r].id
        /\ Cardinality({final_submission[r].id : r \in 1..Len(final_submission)})
              = Len(final_submission)

\* three fold submissions of two rows were aggregated
C4_Witness ==
    /\ pc = "write_final"
    /\ Len(predictions) = 3
    /\ Len(final_submission) = 2
    /\ final_submission[1].id # 1

\* C5: the calls of a run are always a prefix of: fold 0, fold 1, ..., fold
\* K-1 (each fold's train_model entered only after the previous fold's
\* submission was appended), then the aggregator once, the final write, the
\* tracker upload and the print; a complete run made exactly these calls and
\* holds the K fold submissions in fold order.
C5_SequentialFolds ==
    /\ IsPrefix(log, FullLog)
    /\ Len(predictions) = Cardinality({p \in 1..Len(log) : log[p][1] = "append"})
    /\ pc = "done" =>
          /\ log = FullLog
          /\ Len(predictions) = K
          /\ \A i \in 1..K : passed[i].fold_index = i - 1

\* a run has completed
C5_Witness == pc = "done" /\ printed

\* C6: in a complete run submission.csv was written exactly K+1 times, by the
\* test step of fold 0..K-1 in turn and last by train, and its content at
\* the end is the aggregated (majority-vote) table, which is what was
\* uploaded.
C6_SixWrites ==
    pc = "done" =>
        LET W == SelectSeq(log, IsWrite) IN
        /\ Len(W) = K + 1
        /\ \A i \in 1..K : W[i] = <<"test_write", i - 1>>
        /\ W[K + 1] = <<"final_write", -1>>
        /\ file = to_csv(final_submission)
        /\ \A r \in 1..Len(test_df) : \A v \in Classes :
              Votes(r, v) <= Votes(r, read_csv(file)[r].prediction)
        /\ Len(read_csv(file)) = Len(test_df)
        /\ uploaded = file

\* a run has completed and the file no longer holds what the last fold wrote
C6_Witness ==
    /\ pc = "done"
    /\ file # to_csv(written[K])

\* C7: once a read of a CSV, a fit or a test step has failed the run is
\* aborted: no fold after the failing one was started, the aggregator was not
\* called, no final submission was written or uploaded and nothing was
\* printed; the run is aborted for no other reason.
C7_AbortOnFailure ==
    /\ pc = "aborted" <=> failure # <<>>
    /\ failure # <<>> =>
          /\ final_submission = <<>>
          /\ uploaded = <<>>
          /\ ~printed
          /\ \A p \in 1..Len(log) : log[p][2] # -1
          /\ Cardinality({p \in 1..Len(log) : log[p][1] = "train_model"})
                = failure[2] + 1
          /\ Len(predictions) = (IF failure[2] < 0 THEN 0 ELSE failure[2])
          /\ \A p \in 1..Len(log) : log[p][2] <= failure[2]

\* the fit of fold 2 failed after two folds had been collected
C7_Witness ==
    /\ failure = <<"fit", 2>>
    /\ pc = "aborted"
    /\ Len(predictions) = 2

\* C8: after the fit loop of a fold the one retained checkpoint is that of
\* the highest validation accuracy observed over the fold's epochs.
C8_BestCheckpointRetained ==
    pc = "fit_done" =>
        /\ Cardinality(best_k_models) = 1
        /\ \A c \in best_k_models : \A e \in 1..Len(val_accs) : val_accs[e] <= c.score

\* C9: the submission train_model returns for fold i is the table fold i's
\* own test step wrote: the read follows that write with no other write in
\* between, and entry i of predictions is fold i's table.
C9_FoldReadsOwnWrite ==
    /\ \A i \in 1..Len(predictions) : predictions[i] = written[i]
    /\ pc = "append" => test_predictions = written[ii + 1]
    /\ \A p \in 1..Len(log) :
          log[p][1] = "read_csv" =>
              /\ p > 2
              /\ log[p - 2] = <<"test_write", log[p][2]>>
              /\ ~IsWrite(log[p - 1])

\* all folds were collected and two of them predicted differently
C9_Witness ==
    /\ Len(predictions) = K
    /\ predictions[1] # predictions[2]
    /\ predictions[K] # predictions[1]

\* C10: the rows passed to train_model as training subset are exactly the
\* rows outside the fold's validation subset; the validation subset is a
\* contiguous block in row order; with 10 rows every fold has 2 validation
\* rows and 8 training rows.
C10_TrainComplement ==
    \A i \in 1..Len(passed) :
        LET t == passed[i].train_data
            v == passed[i].val_data
        IN  /\ Range(t) \cap Range(v) = {}
            /\ Range(t) \cup Range(v) = Range(train_df)
            /\ Len(t) + Len(v) = Len(train_df)
            /\ Len(v) >= 1
            /\ v = Arange(v[1], v[1] + Len(v))
            /\ \A a, b \in 1..Len(t) : a < b => t[a] < t[b]
            /\ Len(train_df) = 2 * K => Len(v) = 2 /\ Len(t) = 2 * K - 2

\* all five folds of a table of 10 rows were passed to train_model
C10_Witness == Len(passed) = K /\ Len(train_df) = 2 * K

=============================================================================
